---- MODULE Spec2Model ----
(***************************************************************************)
(* The test execution engine of kmamal/testing: the work queue ("stack"),  *)
(* the drain loop runTests, the per-test protocol runTest and the file     *)
(* loading around them, in the three versions the repository holds:       *)
(*   "index"  - src/src/index.js      (script runner, hooks around race)   *)
(*   "script" - src/unnamed/part_000  (script runner, hooks in finally)    *)
(*   "runner" - src/unnamed/part_002  (class TestRunner, appendFile/finish)*)
(* JavaScript runs each callback to completion, so one action is one run   *)
(* of synchronous code between two suspension points (await, nextTick).    *)
(***************************************************************************)
EXTENDS Integers, Sequences, FiniteSets, TLC

\* ---------------------------------------------------------------- bounds
MaxFiles == 2      \* files loaded
MaxTests == 3      \* Test entries ever created (top-level and nested)
MaxPerFile == 2    \* tests one file registers while it loads
MaxNest == 2       \* nested tests one body registers before it returns
MaxExtras == 1     \* what one run has beyond one file of plain bodies (Extras)

\* ------------------------------------------------------ program constants
DefaultDuration == 500     \* let duration = 500
ShortDuration == 50        \* a value a body passes to timeout(t)

Impls == {"index", "script", "runner"}
Slots == {"tick", "finish"}   \* runTests started by nextTick / by finish()

\* JavaScript values that can be an error: "null" is null, "0" is the falsy
\* number 0, every other string is a truthy value (an Error or a string).
NotImplemented == "NOT IMPLEMENTED"
Nullish(v) == v = "null"
Truthy(v) == v \notin {"null", "0"}

VARIABLES
  impl,         \* which of the three sources runs
  loading,      \* module-level loading loop of the script runners in progress
  stack,        \* the queue: markers and Test entries
  running,      \* the "drain scheduled or active" flag
  filesDone,
  countFiles, countTests, countFailed,
  drain,        \* per slot: the runTests invocation and the runTest it awaits
  handlers,     \* handleError closures installed on the process hooks
  abandoned,    \* bodies left behind by a timeout, still alive
  exited,       \* process.exit was called
  summary,      \* what the summary printed
  meta,         \* per Test entry ever created: body, how it was registered
  events,       \* what happened, in order (reporter output and executions)
  ctx           \* one body at work on its context, call by call (CtxSpec)

runnerVars == <<impl, loading, stack, running, filesDone, countFiles,
                countTests, countFailed, drain, handlers, abandoned, exited,
                summary, meta, events>>

vars == <<runnerVars, ctx>>

\* ------------------------------------------------------------- data model
Bodies == {"fn", "undefined"}     \* the callback of a Test entry

\* All sequences over S of length at most n.
SeqsUpTo(S, n) == UNION {[1..k -> S] : k \in 0..n}

\* One runTests invocation. pc: "idle" none, "pending" nextTick scheduled,
\* "await" suspended in runTest at the race, "returned" runTest has returned
\* and runTests resumes next, "aborted" runTests ended by an exception.
\* The rest are runTest's locals (-1 stands for null) and, below the line,
\* a record of what the execution was given.
IdleExec ==
  [pc |-> "idle", id |-> 0, error |-> "null", raised |-> FALSE,
   duration |-> 0, armed |-> 0, elapsed |-> 0,
   countExpected |-> -1, countActual |-> 0, schedule |-> -1,
   installed |-> FALSE,
   \* ------------------------------------------------------------------
   rich |-> FALSE, invoked |-> FALSE, raced |-> FALSE,
   hookErr |-> "null", hookFrom |-> 0, bodyErr |-> "null", postErr |-> "null",
   syncTimeout |-> 0, lastTimeout |-> 0]

Ev(e, id) == [e |-> e, id |-> id]

NoSummary == [files |-> -1, tests |-> -1, failed |-> -1]

\* No body is followed call by call.
CtxOff == [phase |-> "off"]

Init ==
  /\ ctx = CtxOff
  /\ impl \in Impls
  /\ loading = (impl # "runner")
  /\ stack = <<>>
  /\ running = FALSE
  /\ filesDone = FALSE
  /\ countFiles = 0 /\ countTests = 0 /\ countFailed = 0
  /\ drain = [d \in Slots |-> IdleExec]
  /\ handlers = 0
  /\ abandoned = {}
  /\ exited = FALSE
  /\ summary = NoSummary
  /\ meta = <<>>
  /\ events = <<>>

\* ------------------------------------------------------------------ runTest
\* The one assignment both handleError and the catch clause make.
RecordErrorLast(i, error, err) == err

RecordError(i, error, err) ==
  IF i = "index"
  THEN (IF Truthy(error) THEN error ELSE err)      \* error = error || err
  ELSE (IF Nullish(error) THEN err ELSE error)     \* error ??= err

\* if (error) { ... countFailed += 1 }
Failed(error) == Truthy(error)

PostCheckCountOnly(x) ==
  IF x.countExpected # -1 /\ x.countActual # x.countExpected THEN "wrong number"
  ELSE "null"

\* The two checks after the race; "null" when neither throws.
PostCheck(x) ==
  IF x.countExpected # -1 /\ x.countActual # x.countExpected THEN "wrong number"
  ELSE IF x.schedule # -1 /\ x.schedule > 0 THEN "missed steps"
  ELSE "null"

\* Whether process.off runs on the way out. how: "sync" the callback threw
\* or returned no promise, "resolved" / "rejected" the way the race ended.
Uninstalls(i, how) == i # "index" \/ how = "resolved"

FinalizeNoCatch(i, x, thrown, how) ==
  LET post == IF thrown = "null" THEN PostCheck(x) ELSE "null"
      caught == IF thrown # "null" THEN thrown ELSE post
  IN [x EXCEPT !.pc = "returned", !.raised = (caught # "null"),
               !.installed = x.installed /\ ~Uninstalls(i, how),
               !.countExpected = -1, !.countActual = 0, !.schedule = -1,
               !.bodyErr = thrown, !.postErr = post]

\* The rest of runTest once the callback has thrown `thrown` or the race has
\* ended with it ("null": nothing thrown): post-checks, catch, finally, return.
Finalize(i, x, thrown, how) ==
  LET post == IF thrown = "null" THEN PostCheck(x) ELSE "null"
      caught == IF thrown # "null" THEN thrown ELSE post
      err == IF caught = "null" THEN x.error ELSE RecordError(i, x.error, caught)
  IN [x EXCEPT !.pc = "returned", !.error = err, !.raised = FALSE,
               !.installed = x.installed /\ ~Uninstalls(i, how),
               !.countExpected = -1, !.countActual = 0, !.schedule = -1,
               !.bodyErr = thrown, !.postErr = post]

\* The assertion bookkeeping a body leaves: none, expect(1) with no assertion
\* made, expect(1) with one made, a schedule with one step not consumed.
Checks ==
  {[expect |-> -1, asserts |-> 0, sched |-> -1],
   [expect |-> 1, asserts |-> 0, sched |-> -1],
   [expect |-> 1, asserts |-> 1, sched |-> -1],
   [expect |-> -1, asserts |-> 0, sched |-> 1]}

NoChecks == [expect |-> -1, asserts |-> 0, sched |-> -1]

\* What a callback does before it returns: timeout(t) unless t = 0, test(...)
\* n times, expect(c.expect) unless -1, c.asserts passing assertions,
\* schedule() of c.sched steps unless -1, and then r: "return" nothing,
\* "promise" a promise, "throw" an Error, "throw0" the number 0, "notok" a
\* failing assertion.
Script(rich, t, n, c, r) ==
  [rich |-> rich, tmo |-> t, nest |-> [k \in 1..n |-> "fn"],
   expect |-> c.expect, asserts |-> c.asserts, sched |-> c.sched, res |-> r]

\* Plain bodies only register nested tests and then return, return a promise
\* or throw an Error. Rich bodies use the rest of the context, throw a falsy
\* value and, after their first await, call timeout() and leave errors to the
\* process hooks.
PlainScripts ==
  {Script(FALSE, 0, n, NoChecks, r) :
     n \in 0..MaxNest, r \in {"return", "promise", "throw"}}

RichScripts ==
  {Script(TRUE, t, 0, c, "promise") : t \in {0, ShortDuration}, c \in Checks}
  \cup {Script(TRUE, 0, 0, c, "return") : c \in Checks \ {NoChecks}}
  \cup {Script(TRUE, 0, 0, NoChecks, r) : r \in {"throw0", "notok"}}

SyncScripts == PlainScripts \cup RichScripts

NoScript == Script(FALSE, 0, 0, NoChecks, "return")

RichIds == {k \in 1..Len(meta) : meta[k].rich}
LateIds == {k \in 1..Len(meta) : meta[k].during \in {"exec", "abandoned"}}

\* What a run has used beyond one file of plain bodies: further files, rich
\* bodies, tests registered by a body after its first await.
Extras ==
  (IF countFiles > 1 THEN countFiles - 1 ELSE 0)
  + Cardinality(RichIds) + Cardinality(LateIds)

ScriptsFor(body, made) ==
  IF body = "undefined" THEN {NoScript}
  ELSE {sc \in SyncScripts :
          /\ made + Len(sc.nest) <= MaxTests
          /\ sc.rich => Extras < MaxExtras}

Thrown(res) ==
  CASE res = "throw" -> "Error: thrown"
    [] res = "throw0" -> "0"
    [] res = "notok" -> "not ok"
    [] OTHER -> "null"

\* runTest's locals when the callback returns.
Started(i, id, sc) ==
  [IdleExec EXCEPT
     !.id = id,
     !.rich = sc.rich,
     !.duration = IF sc.tmo = 0 THEN DefaultDuration ELSE sc.tmo,
     !.countExpected = sc.expect,
     !.countActual = sc.asserts + (IF sc.res = "notok" THEN 1 ELSE 0),
     !.schedule = sc.sched,
     !.installed = (i # "index"),
     !.invoked = TRUE,
     !.syncTimeout = sc.tmo, !.lastTimeout = sc.tmo]

RunTestNoCheck(i, id, body, sc) ==
  IF body = "undefined"
  THEN Finalize(i, [IdleExec EXCEPT !.id = id, !.installed = (i # "index"),
                                    !.invoked = TRUE],
                "TypeError: callback is not a function", "sync")
  ELSE LET x == Started(i, id, sc) IN
       IF sc.res = "promise"
       THEN [x EXCEPT !.pc = "await", !.armed = x.duration, !.elapsed = 0,
                      !.raced = TRUE, !.installed = TRUE]
       ELSE Finalize(i, x, Thrown(sc.res), "sync")

RunTestEarlyTimer(i, id, body, sc) ==
  IF body = "undefined"
  THEN Finalize(i, [IdleExec EXCEPT !.id = id, !.error = NotImplemented,
                                    !.installed = (i # "index")],
                NotImplemented, "sync")
  ELSE LET x == Started(i, id, sc) IN
       IF sc.res = "promise"
       THEN [x EXCEPT !.pc = "await", !.armed = DefaultDuration, !.elapsed = 0,
                      !.raced = TRUE, !.installed = TRUE]
       ELSE Finalize(i, x, Thrown(sc.res), "sync")

\* runTest from its first line to its first suspension: at the race ("await")
\* or, when nothing is awaited, at its return ("returned").
RunTest(i, id, body, sc) ==
  IF body = "undefined"
  THEN Finalize(i, [IdleExec EXCEPT !.id = id, !.error = NotImplemented,
                                    !.installed = (i # "index")],
                NotImplemented, "sync")
  ELSE LET x == Started(i, id, sc) IN
       IF sc.res = "promise"
       THEN [x EXCEPT !.pc = "await", !.armed = x.duration, !.elapsed = 0,
                      !.raced = TRUE, !.installed = TRUE]
       ELSE Finalize(i, x, Thrown(sc.res), "sync")

\* ----------------------------------------------------------------- runTests
Gs(f) == [kind |-> "gs", id |-> f]      \* the path string
Ge(f) == [kind |-> "ge", id |-> f]      \* null
Test(id) == [kind |-> "test", id |-> id]

RECURSIVE LeadingMarkers(_)
LeadingMarkers(s) ==
  IF s = <<>> \/ Head(s).kind = "test" THEN 0 ELSE 1 + LeadingMarkers(Tail(s))

MarkerEvents(s) == [k \in 1..Len(s) |-> Ev(s[k].kind, s[k].id)]

TestIds(s) == {s[k].id : k \in {j \in 1..Len(s) : s[j].kind = "test"}}

\* stack.unshift once per element, in order: the last one ends up first.
Unshifted(ids, s) == [k \in 1..Len(ids) |-> Test(ids[Len(ids) + 1 - k])] \o s

Registered(body, parent, how, during, behind) ==
  [body |-> body, parent |-> parent, how |-> how, during |-> during,
   behind |-> behind, rich |-> FALSE, file |-> 0]

\* The while loop of runTests from its head to its next suspension, entered
\* with countFailed = cf, the log ev and filesDone = fd: markers are consumed,
\* then either the queue is empty (summary and exit, or running = false) or a
\* Test entry is popped and runTest runs up to where it suspends.
RunLoop(d, cf, ev, fd) ==
  LET n == LeadingMarkers(stack)
      rest == SubSeq(stack, n + 1, Len(stack))
      ev1 == ev \o MarkerEvents(SubSeq(stack, 1, n))
  IN IF rest = <<>>
     THEN /\ stack' = <<>>
          /\ countFailed' = cf
          /\ drain' = [drain EXCEPT ![d] = IdleExec]
          /\ IF fd
             THEN /\ exited' = TRUE
                  /\ summary' = [files |-> countFiles, tests |-> countTests,
                                 failed |-> cf]
                  /\ events' = ev1 \o <<Ev("summary", 0)>>
                  /\ running' = running
             ELSE /\ running' = FALSE
                  /\ events' = ev1
                  /\ UNCHANGED <<exited, summary>>
          /\ UNCHANGED <<countTests, handlers, meta>>
     ELSE LET id == Head(rest).id IN
          \E sc \in ScriptsFor(meta[id].body, Len(meta)) :
            LET r == RunTest(impl, id, meta[id].body, sc)
                kids == [k \in 1..Len(sc.nest) |-> Len(meta) + k]
            IN /\ stack' = Unshifted(kids, Tail(rest))
               /\ meta' = [meta EXCEPT ![id].rich = sc.rich] \o
                    [k \in 1..Len(sc.nest) |->
                       Registered(sc.nest[k], id, "nested", "sync",
                                  TestIds(Tail(rest)))]
               /\ countTests' = countTests + 1
               /\ countFailed' = cf
               /\ handlers' = handlers + (IF r.installed THEN 1 ELSE 0)
               /\ drain' = [drain EXCEPT ![d] = r]
               /\ events' = ev1 \o <<Ev("start", id)>>
               /\ UNCHANGED <<running, exited, summary>>

\* process.nextTick(runTests) fires.
StartTick ==
  /\ ~exited /\ ~loading
  /\ drain["tick"].pc = "pending"
  /\ RunLoop("tick", countFailed, events, filesDone)
  /\ UNCHANGED <<ctx, impl, loading, filesDone, countFiles, abandoned>>

\* runTests resumes from `await runTest(callback)`: it reports the outcome and
\* loops. runTests catches nothing, so a rejected runTest would end it.
Resume(d) ==
  /\ ~exited
  /\ drain[d].pc = "returned"
  /\ IF drain[d].raised
     THEN /\ drain' = [drain EXCEPT ![d].pc = "aborted"]
          /\ UNCHANGED <<stack, running, countTests, countFailed, handlers,
                         exited, summary, meta, events>>
     ELSE RunLoop(d,
                  countFailed + (IF Failed(drain[d].error) THEN 1 ELSE 0),
                  events \o <<Ev("report", drain[d].id)>>,
                  filesDone)
  /\ UNCHANGED <<ctx, impl, loading, filesDone, countFiles, abandoned>>

\* finish()
Finish ==
  /\ ~exited
  /\ impl = "runner" /\ ~filesDone
  /\ drain["finish"].pc = "idle"
  /\ filesDone' = TRUE
  /\ RunLoop("finish", countFailed, events, TRUE)
  /\ UNCHANGED <<ctx, impl, loading, countFiles, abandoned>>

\* ------------------------------------------------------------- registration
FileLoadedNoEnd(bs) ==
  /\ countFiles < MaxFiles
  /\ countFiles >= 1 => Extras < MaxExtras
  /\ Len(meta) + Len(bs) <= MaxTests
  /\ countFiles' = countFiles + 1
  /\ stack' = stack \o <<Gs(countFiles + 1)>> \o
              [k \in 1..Len(bs) |-> Test(Len(meta) + k)]
  /\ meta' = meta \o
       [k \in 1..Len(bs) |->
          [Registered(bs[k], 0, "file", "load", {})
             EXCEPT !.file = countFiles + 1]]
  /\ IF Len(bs) > 0 /\ ~running
     THEN /\ running' = TRUE
          /\ drain' = [drain EXCEPT !["tick"].pc = "pending"]
     ELSE UNCHANGED <<running, drain>>

\* The stack a file's load leaves and what appendTest did to the flag: the
\* first appendTest that finds running false sets it and schedules runTests.
FileLoaded(bs) ==
  /\ countFiles < MaxFiles
  /\ countFiles >= 1 => Extras < MaxExtras
  /\ Len(meta) + Len(bs) <= MaxTests
  /\ countFiles' = countFiles + 1
  /\ stack' = stack \o <<Gs(countFiles + 1)>> \o
              [k \in 1..Len(bs) |-> Test(Len(meta) + k)] \o
              <<Ge(countFiles + 1)>>
  /\ meta' = meta \o
       [k \in 1..Len(bs) |->
          [Registered(bs[k], 0, "file", "load", {})
             EXCEPT !.file = countFiles + 1]]
  /\ IF Len(bs) > 0 /\ ~running
     THEN /\ running' = TRUE
          /\ drain' = [drain EXCEPT !["tick"].pc = "pending"]
     ELSE UNCHANGED <<running, drain>>

\* One round of the module-level loop of the script runners.
LoadFile ==
  /\ ~exited /\ impl # "runner" /\ loading
  /\ \E bs \in SeqsUpTo(Bodies, MaxPerFile) : FileLoaded(bs)
  /\ UNCHANGED <<ctx, impl, loading, filesDone, countTests, countFailed, handlers,
                 abandoned, exited, summary, events>>

\* The loop ends: filesDone = true, and the module's synchronous code is over.
LoadDone ==
  /\ ~exited /\ impl # "runner" /\ loading
  /\ loading' = FALSE
  /\ filesDone' = TRUE
  /\ UNCHANGED <<ctx, impl, stack, running, countFiles, countTests, countFailed,
                 drain, handlers, abandoned, exited, summary, meta, events>>

\* appendFile(path)
AppendFile ==
  /\ ~exited /\ impl = "runner" /\ ~filesDone
  /\ \E bs \in SeqsUpTo(Bodies, MaxPerFile) : FileLoaded(bs)
  /\ UNCHANGED <<ctx, impl, loading, filesDone, countTests, countFailed, handlers,
                 abandoned, exited, summary, events>>

\* Bodies that can still act: those at their race and those a timeout left.
Awaiting == {d \in Slots : drain[d].pc = "await"}
LiveBodies == {drain[d].id : d \in Awaiting} \cup abandoned
During(src) == IF src \in abandoned THEN "abandoned" ELSE "exec"
CanRegisterLate == Len(meta) < MaxTests /\ Extras < MaxExtras

\* The exported test (appendTest) called by a body after its first await.
AppendTest(src) ==
  /\ ~exited
  /\ src \in LiveBodies
  /\ CanRegisterLate
  /\ stack' = Append(stack, Test(Len(meta) + 1))
  /\ meta' = Append(meta, Registered("fn", src, "top", During(src), {}))
  /\ IF ~running
     THEN /\ running' = TRUE
          /\ drain' = [drain EXCEPT !["tick"].pc = "pending"]
     ELSE UNCHANGED <<running, drain>>
  /\ UNCHANGED <<ctx, impl, loading, filesDone, countFiles, countTests, countFailed,
                 handlers, abandoned, exited, summary, events>>

\* The context's test(name, callback) called by a body after its first await.
NestedTest(src) ==
  /\ ~exited
  /\ src \in LiveBodies
  /\ CanRegisterLate
  /\ stack' = Unshifted(<<Len(meta) + 1>>, stack)
  /\ meta' = Append(meta, Registered("fn", src, "nested", During(src), TestIds(stack)))
  /\ UNCHANGED <<ctx, impl, loading, running, filesDone, countFiles, countTests,
                 countFailed, drain, handlers, abandoned, exited, summary,
                 events>>

\* ------------------------------------------------- a body after its first await
\* context.timeout(t) called once the race is on: only `duration` changes.
LateTimeout(d, t) ==
  /\ ~exited
  /\ drain[d].pc = "await" /\ drain[d].rich
  /\ drain[d].duration # t
  /\ drain' = [drain EXCEPT ![d].duration = t, ![d].lastTimeout = t]
  /\ UNCHANGED <<ctx, impl, loading, stack, running, filesDone, countFiles,
                 countTests, countFailed, handlers, abandoned, exited, summary,
                 meta, events>>

\* The process emits unhandledRejection / uncaughtException for an error of
\* body src: every installed handleError of an execution still under way runs.
Hooked(i, x, src, err) ==
  IF x.pc = "await" /\ x.installed
  THEN [x EXCEPT !.error = RecordError(i, x.error, err),
                 !.hookErr = IF x.hookErr = "null" THEN err ELSE x.hookErr,
                 !.hookFrom = IF x.hookErr = "null" THEN src ELSE x.hookFrom]
  ELSE x

HookError(src) ==
  /\ ~exited
  /\ src \in LiveBodies \cap RichIds
  /\ \E d \in Awaiting : drain[d].installed /\ drain[d].hookErr = "null"
  /\ drain' = [d \in Slots |-> Hooked(impl, drain[d], src, "Error: hook")]
  /\ UNCHANGED <<ctx, impl, loading, stack, running, filesDone, countFiles,
                 countTests, countFailed, handlers, abandoned, exited, summary,
                 meta, events>>

\* The race ends and runTest runs to its return.
Settled(d, thrown, how) ==
  LET r == Finalize(impl, drain[d], thrown, how)
  IN /\ drain' = [drain EXCEPT ![d] = r]
     /\ handlers' = handlers - (IF drain[d].installed /\ ~r.installed THEN 1 ELSE 0)

\* The body's promise resolves ("null") or rejects with v before the timer.
BodySettles(d, v) ==
  /\ ~exited
  /\ drain[d].pc = "await"
  /\ v = "0" => drain[d].rich
  /\ Settled(d, v, IF v = "null" THEN "resolved" ELSE "rejected")
  /\ UNCHANGED <<ctx, impl, loading, stack, running, filesDone, countFiles,
                 countTests, countFailed, abandoned, exited, summary, meta,
                 events>>

\* timeout(duration) rejects: the body is left behind, still alive.
TimerFires(d) ==
  /\ ~exited
  /\ drain[d].pc = "await"
  /\ drain[d].elapsed = drain[d].armed
  /\ Settled(d, "Timeout", "rejected")
  /\ abandoned' = abandoned \cup {drain[d].id}
  /\ UNCHANGED <<ctx, impl, loading, stack, running, filesDone, countFiles,
                 countTests, countFailed, exited, summary, meta, events>>

\* Time passes, up to the next timer that is due and never beyond it.
Remaining(d) == drain[d].armed - drain[d].elapsed

Tick ==
  /\ ~exited
  /\ \E dt \in {Remaining(d) : d \in Awaiting} :
       /\ dt > 0
       /\ \A d \in Awaiting : dt <= Remaining(d)
       /\ drain' = [d \in Slots |->
                      IF d \in Awaiting
                      THEN [drain[d] EXCEPT !.elapsed = drain[d].elapsed + dt]
                      ELSE drain[d]]
  /\ UNCHANGED <<ctx, impl, loading, stack, running, filesDone, countFiles,
                 countTests, countFailed, handlers, abandoned, exited, summary,
                 meta, events>>

Rejections == {"Error: rejected", "0"}

Next ==
  \/ LoadFile
  \/ LoadDone
  \/ AppendFile
  \/ Finish
  \/ StartTick
  \/ \E d \in Slots : Resume(d)
  \/ \E d \in Slots, t \in {ShortDuration} : LateTimeout(d, t)
  \/ \E d \in Slots, v \in {"null"} \cup Rejections : BodySettles(d, v)
  \/ \E d \in Slots : TimerFires(d)
  \/ Tick
  \/ \E src \in 1..MaxTests : HookError(src)
  \/ \E src \in 1..MaxTests : AppendTest(src)
  \/ \E src \in 1..MaxTests : NestedTest(src)

Spec == Init /\ [][Next]_vars

\* ------------------------------------------- one body and its context
\* A second specification follows one execution of runTest call by call: the
\* body is an async function that calls the methods of its context, awaits in
\* between (time passes, the process hooks may deliver an error) and finally
\* returns or lets the error of its last call propagate.
MaxCalls == 4          \* context calls one body makes
MaxExpect == 2         \* largest n passed to expect(n)
MaxSteps == 2          \* steps one schedule declares
MaxSchedules == 2      \* schedules one body creates
TimeStep == 10         \* grain of the clock
MaxElapsed == 30       \* how long a body is followed
Epoch == 1000          \* Date.now() when the body is called
LateTime == 10         \* the time of a schedule's later steps
SmallTolerance == 10   \* a tollerance option a body passes

DefaultTolerance == 20     \* options.tollerance || 20

Abs(n) == IF n < 0 THEN 0 - n ELSE n

\* isEqual(value, x) on the rest arguments of step(): tuples of strings.
IsEqual(a, b) == Len(a) = Len(b) /\ \A k \in 1..Len(a) : a[k] = b[k]

Values == {<<"x">>, <<"y">>}
StepTimes == {0, LateTime}
NoPair == [time |-> -1, value |-> <<>>]
Pair(t, v) == [time |-> t, value |-> v]

\* The steps arrays a body declares: the first step at 0, the others later.
StepLists ==
  {st \in SeqsUpTo([time : StepTimes, value : Values], MaxSteps) :
     \A k \in 1..Len(st) : st[k].time = (IF k = 1 THEN 0 ELSE LateTime)}

\* The tollerance option: -1 when the caller gives none.
ToleranceOptions == {-1, 0, SmallTolerance}

\* options.tollerance || 20: undefined and 0 are falsy.
Tollerance(opt) == IF opt = -1 \/ opt = 0 THEN DefaultTolerance ELSE opt

\* The propagate option as the caller gives it, and options.propagate || true.
PropagateOptions == {"undefined", "false", "true"}
Propagate(p) == IF p \in {"undefined", "false"} THEN "true" ELSE p

NoCall == [op |-> "none", h |-> 0, err |-> "null",
           expected |-> NoPair, actual |-> NoPair]
Call(op, h, err, expected, actual) ==
  [op |-> op, h |-> h, err |-> err, expected |-> expected, actual |-> actual]

NoOutcome == [error |-> "null", expected |-> -1, actual |-> -1, steps |-> <<>>]

\* runTest's locals when the callback is called (startTime: null counts as 0
\* in Date.now() - startTime), the closures of the schedules made (handles)
\* and a record of the calls: asserts and atExpect count the assertion calls
\* made so far and before the last expect, prev is the last accepted step,
\* anchor the time of the last start().
CtxBody ==
  [phase |-> "body", calls |-> 0, now |-> Epoch, error |-> "null",
   countExpected |-> -1, countActual |-> 0,
   schedule |-> <<>>, startTime |-> 0, handles |-> <<>>,
   asserts |-> 0, atExpect |-> 0, expects |-> 0,
   prev |-> NoPair, prevAt |-> 0, anchor |-> 0,
   last |-> NoCall, thrown |-> "null", outcome |-> NoOutcome]

CtxInit ==
  /\ ctx = CtxBody
  /\ impl = "runner"
  /\ loading = FALSE
  /\ stack = <<>>
  /\ running = FALSE
  /\ filesDone = FALSE
  /\ countFiles = 0 /\ countTests = 0 /\ countFailed = 0
  /\ drain = [d \in Slots |-> IdleExec]
  /\ handlers = 0
  /\ abandoned = {}
  /\ exited = FALSE
  /\ summary = NoSummary
  /\ meta = <<>>
  /\ events = <<>>

CanCall == ctx.phase = "body" /\ ctx.calls < MaxCalls

Called(c, op, h, err, expected, actual) ==
  [c EXCEPT !.calls = c.calls + 1,
            !.last = Call(op, h, err, expected, actual)]

ExpectCallNoReset(c, n) ==
  [Called(c, "expect", 0, "null", NoPair, NoPair) EXCEPT
     !.countExpected = n, !.atExpect = c.asserts, !.expects = 1]

\* expect(n)
ExpectCall(c, n) ==
  [Called(c, "expect", 0, "null", NoPair, NoPair) EXCEPT
     !.countExpected = n, !.countActual = 0,
     !.atExpect = c.asserts, !.expects = 1]

\* ok, equal, throws, throwsNot, throwsWith and their async variants: the
\* counter first, then the verdict.
AssertCall(c, pass) ==
  [Called(c, "assert", 0, IF pass THEN "null" ELSE "not ok", NoPair, NoPair)
     EXCEPT !.countActual = c.countActual + 1, !.asserts = c.asserts + 1]

\* timeout(t), test(name, callback): no effect on the locals followed here;
\* fail(info) throws.
OtherCall(c, op) ==
  Called(c, op, 0, IF op = "fail" THEN "failed" ELSE "null", NoPair, NoPair)

\* schedule(steps, options): the closure keeps its own tollerance and
\* propagate; `own` is what is left of the steps it declared, were they
\* consumed only through it.
ScheduleCall(c, steps, opt, p) ==
  [Called(c, "schedule", Len(c.handles) + 1, "null", NoPair, NoPair) EXCEPT
     !.schedule = steps,
     !.handles = Append(c.handles,
                        [tollerance |-> Tollerance(opt), option |-> opt,
                         propagate |-> Propagate(p),
                         declared |-> steps, own |-> steps]),
     !.prev = NoPair]

\* start()
StartCall(c, h) ==
  [Called(c, "start", h, "null", NoPair, NoPair) EXCEPT
     !.startTime = c.now, !.prev = NoPair, !.anchor = c.now]

StepCallNoPropagate(c, h, x) ==
  LET elapsed == c.now - c.startTime
      own == c.handles[h].own
      c1 == [c EXCEPT !.handles[h].own = IF own = <<>> THEN own ELSE Tail(own),
                      !.prev = NoPair]
  IN IF c.schedule = <<>>
     THEN Called(c1, "step", h, "no steps left", NoPair, Pair(elapsed, x))
     ELSE LET time == Head(c.schedule).time
              value == Head(c.schedule).value
              c2 == [c1 EXCEPT !.schedule = Tail(c.schedule)]
          IN IF ~IsEqual(value, x)
             THEN Called(c2, "step", h, "unexpected step",
                         Pair(time, value), Pair(elapsed, x))
             ELSE IF Abs(elapsed - time) > c.handles[h].tollerance
             THEN Called(c2, "step", h, "bad timing",
                         Pair(time, value), Pair(elapsed, x))
             ELSE [Called(c2, "step", h, "null",
                          Pair(time, value), Pair(elapsed, x))
                     EXCEPT !.prev = Pair(time, value), !.prevAt = c.now]

\* step(...x) of the h-th schedule made: it reads and writes the `schedule`
\* and `startTime` of runTest, with the tollerance of its own closure.
StepCall(c, h, x) ==
  LET elapsed == c.now - c.startTime
      own == c.handles[h].own
      c1 == [c EXCEPT !.handles[h].own = IF own = <<>> THEN own ELSE Tail(own),
                      !.prev = NoPair]
  IN IF c.schedule = <<>>
     THEN Called(c1, "step", h, "no steps left", NoPair, Pair(elapsed, x))
     ELSE LET time == Head(c.schedule).time
              value == Head(c.schedule).value
              c2 == [c1 EXCEPT !.schedule = Tail(c.schedule)]
          IN IF ~IsEqual(value, x)
             THEN Called(c2, "step", h, "unexpected step",
                         Pair(time, value), Pair(elapsed, x))
             ELSE IF Abs(elapsed - time) > c.handles[h].tollerance
             THEN Called(c2, "step", h, "bad timing",
                         Pair(time, value), Pair(elapsed, x))
             ELSE [Called(c2, "step", h, "null",
                          Pair(time, value), Pair(elapsed, x))
                     EXCEPT !.startTime =
                              IF c.handles[h].propagate = "true"
                              THEN c.startTime + (elapsed - time)
                              ELSE c.startTime,
                            !.prev = Pair(time, value), !.prevAt = c.now]

\* runTest's locals as the execution record Finalize works on.
CtxExec(c) ==
  [IdleExec EXCEPT
     !.pc = "await", !.id = 1, !.error = c.error,
     !.countExpected = c.countExpected, !.countActual = c.countActual,
     !.schedule = IF c.handles = <<>> THEN -1 ELSE Len(c.schedule),
     !.installed = TRUE, !.invoked = TRUE, !.raced = TRUE]

\* The body is over, having thrown `thrown` or nothing ("null"): the outcome
\* and what the error object carries.
CtxFinal(c, thrown) ==
  LET r == Finalize("runner", CtxExec(c), thrown,
                    IF thrown = "null" THEN "resolved" ELSE "rejected")
      own == c.error = "null" /\ thrown = "null"
  IN [c EXCEPT
        !.phase = "done", !.thrown = thrown,
        !.outcome =
          [error |-> r.error,
           expected |-> IF own /\ r.postErr = "wrong number"
                        THEN c.countExpected ELSE -1,
           actual |-> IF own /\ r.postErr = "wrong number"
                      THEN c.countActual ELSE -1,
           steps |-> IF own /\ r.postErr = "missed steps"
                     THEN c.schedule ELSE <<>>]]

CtxExpect(n) ==
  /\ CanCall
  /\ ctx' = ExpectCall(ctx, n)
  /\ UNCHANGED runnerVars

CtxAssert(pass) ==
  /\ CanCall
  /\ ctx' = AssertCall(ctx, pass)
  /\ UNCHANGED runnerVars

CtxOther(op) ==
  /\ CanCall
  /\ ctx' = OtherCall(ctx, op)
  /\ UNCHANGED runnerVars

CtxSchedule(steps, opt, p) ==
  /\ CanCall
  /\ Len(ctx.handles) < MaxSchedules
  /\ ctx' = ScheduleCall(ctx, steps, opt, p)
  /\ UNCHANGED runnerVars

CtxStart(h) ==
  /\ CanCall
  /\ h \in 1..Len(ctx.handles)
  /\ ctx' = StartCall(ctx, h)
  /\ UNCHANGED runnerVars

CtxStep(h, x) ==
  /\ CanCall
  /\ h \in 1..Len(ctx.handles)
  /\ ctx' = StepCall(ctx, h, x)
  /\ UNCHANGED runnerVars

\* The body awaits and time passes. Before start() the clock is not followed:
\* Date.now() - null is the time since the epoch whenever step() is called.
CtxTime ==
  /\ ctx.phase = "body"
  /\ ctx.startTime # 0
  /\ ctx.now + TimeStep <= Epoch + MaxElapsed
  /\ ctx' = [ctx EXCEPT !.now = ctx.now + TimeStep]
  /\ UNCHANGED runnerVars

\* handleError runs while the body awaits.
CtxHook ==
  /\ ctx.phase = "body"
  /\ ctx.error = "null"
  /\ ctx' = [ctx EXCEPT !.error = RecordError("runner", ctx.error, "Error: hook")]
  /\ UNCHANGED runnerVars

\* The body does not catch what its last call threw.
CtxThrow ==
  /\ ctx.phase = "body"
  /\ ctx.last.err # "null"
  /\ ctx' = CtxFinal(ctx, ctx.last.err)
  /\ UNCHANGED runnerVars

\* The body returns (its promise resolves).
CtxReturn ==
  /\ ctx.phase = "body"
  /\ ctx' = CtxFinal(ctx, "null")
  /\ UNCHANGED runnerVars

CtxNext ==
  \/ \E n \in 0..MaxExpect : CtxExpect(n)
  \/ \E pass \in BOOLEAN : CtxAssert(pass)
  \/ \E op \in {"timeout", "fail", "test"} : CtxOther(op)
  \/ \E steps \in StepLists, opt \in ToleranceOptions, p \in PropagateOptions :
       CtxSchedule(steps, opt, p)
  \/ \E h \in 1..MaxSchedules : CtxStart(h)
  \/ \E h \in 1..MaxSchedules, x \in Values : CtxStep(h, x)
  \/ CtxTime
  \/ CtxHook
  \/ CtxThrow
  \/ CtxReturn

CtxSpec == CtxInit /\ [][CtxNext]_vars

\* ============================================================== properties
Active == {d \in Slots : drain[d].pc \in {"await", "returned"}}
Executing == {drain[d].id : d \in Active}
CountIn(evs, e, id) == Cardinality({k \in 1..Len(evs) : evs[k] = Ev(e, id)})
Count(e, id) == CountIn(events, e, id)
Pos(e, id) ==
  IF Count(e, id) = 0 THEN 0
  ELSE CHOOSE k \in 1..Len(events) : events[k] = Ev(e, id)
AllTests == 1..Len(meta)

\* C1: at most one runTests invocation is between its first pop and its end
\* at any time, so no two tests are executing at once.
C1_SingleDrain == Cardinality(Active) <= 1

\* C2: when the summary is emitted no test is executing or waiting to be
\* executed, every Test entry ever queued was reported exactly once, and the
\* summary's count of tests is the number of results reported.
C2_SummaryComplete ==
  exited =>
    /\ Active = {}
    /\ TestIds(stack) = {}
    /\ \A id \in AllTests : Count("report", id) = 1
    /\ summary.tests = Cardinality({id \in AllTests : Count("report", id) > 0})

\* C3: once loading is complete the summary is emitted in the end: a state in
\* which loading is complete and no runTests is scheduled or under way, and
\* no body is alive to register a test, is a state after the summary.
C3_SummaryWhenQuiescent ==
  (filesDone /\ (\A d \in Slots : drain[d].pc = "idle") /\ abandoned = {})
    => exited

\* C4: a nested test N registered by A's body while the drain executes A, with
\* B queued behind A, starts after A has concluded and before B starts.
C4_NestedBeforeSibling ==
  \A n \in AllTests :
    (meta[n].how = "nested" /\ meta[n].during \in {"sync", "exec"}
       /\ meta[n].behind # {})
    => /\ \A b \in meta[n].behind :
            Count("start", b) > 0 =>
              (Count("start", n) > 0 /\ Pos("start", n) < Pos("start", b))
       /\ ~(\E d, e \in Slots :
              /\ drain[d].pc \in {"await", "returned"} /\ drain[d].id = n
              /\ drain[e].pc = "await" /\ drain[e].id = meta[n].parent)

\* C5: draining a Test entry adds exactly 1 to countTests, and 1 to countFailed
\* exactly when its outcome error is not null; draining markers changes no
\* counter.
C5_Counters ==
  [][/\ countTests' - countTests
          = Cardinality({id \in AllTests :
                           CountIn(events', "start", id) > Count("start", id)})
     /\ \A d \in Slots :
          (drain[d].pc = "returned" /\ drain'[d] # drain[d])
            => countFailed' - countFailed
                 = (IF drain[d].error # "null" THEN 1 ELSE 0)
     /\ (\A d \in Slots : ~(drain[d].pc = "returned" /\ drain'[d] # drain[d]))
            => countFailed' = countFailed]_vars

\* The first Test entry of the queue, 0 when it holds none.
FirstTest(s) == IF LeadingMarkers(s) = Len(s) THEN 0 ELSE s[LeadingMarkers(s) + 1].id

\* runTests of slot d resumes from its await in this step.
Resumes(d) == drain[d].pc = "returned" /\ drain'[d] # drain[d]

\* After the report the loop goes on: it consumes the markers and, when the
\* queue holds a Test entry, pops the first one and executes it.
GoesOn(d) ==
  /\ CountIn(events', "report", drain[d].id) = Count("report", drain[d].id) + 1
  /\ IF FirstTest(stack) = 0
     THEN stack' = <<>>
     ELSE /\ drain'[d].pc \in {"await", "returned"}
          /\ drain'[d].id = FirstTest(stack)
          /\ CountIn(events', "start", FirstTest(stack))
                = Count("start", FirstTest(stack)) + 1

\* C6: no failure of a test ends the drain: runTest returns an outcome, never
\* raises, and after a failing test the loop pops and processes the next entry.
C6_FailureNeverAborts ==
  /\ [](\A d \in Slots : drain[d].pc # "aborted" /\ ~drain[d].raised)
  /\ [][\A d \in Slots :
          (Resumes(d) /\ drain[d].error # "null") => GoesOn(d)]_vars

\* A test that timed out was reported and the drain went on to start another.
C6_Witness ==
  \E a \in abandoned, b \in AllTests :
    /\ Count("report", a) = 1 /\ countFailed > 0
    /\ Pos("start", b) > Pos("report", a)

FirstOf(a, b, c) == IF a # "null" THEN a ELSE IF b # "null" THEN b ELSE c

\* C7 as stated: the outcome is the first non-null of the body's exception,
\* the hook's error, the post-check error, in this order.
C7_BodyFirst ==
  \A d \in Slots :
    drain[d].pc = "returned" =>
      drain[d].error = FirstOf(drain[d].bodyErr, drain[d].hookErr, drain[d].postErr)

\* C7 amended: the outcome is the error recorded first in time: the error the
\* hook delivered during the race, else the body's own exception (or the
\* marker of a missing body), else the post-check error.
C7_FirstRecorded ==
  \A d \in Slots :
    drain[d].pc = "returned" =>
      drain[d].error = FirstOf(drain[d].hookErr, drain[d].bodyErr, drain[d].postErr)

\* A hook error came first, the body's promise rejected later.
C7_Witness ==
  \E d \in Slots :
    /\ drain[d].pc = "returned"
    /\ drain[d].hookErr # "null" /\ drain[d].bodyErr = "Error: rejected"
    /\ drain[d].error = drain[d].hookErr

\* C8: a Test entry without a body ends with the marker, its callback is not
\* invoked and no race is started; it counts as one test run and one failed,
\* and the drain goes on.
C8_NotImplemented ==
  /\ [](\A d \in Slots :
          (drain[d].pc \in {"await", "returned"}
             /\ meta[drain[d].id].body = "undefined")
          => /\ drain[d].pc = "returned"
             /\ drain[d].error = NotImplemented
             /\ ~drain[d].invoked /\ ~drain[d].raced)
  /\ [][\A id \in AllTests :
          (meta[id].body = "undefined"
             /\ CountIn(events', "start", id) > Count("start", id))
          => countTests' = countTests + 1]_vars
  /\ [][\A d \in Slots :
          (Resumes(d) /\ meta[drain[d].id].body = "undefined")
          => (countFailed' = countFailed + 1 /\ GoesOn(d))]_vars

\* A test without a body was reported as failed and another test was started
\* after it.
C8_Witness ==
  \E a, b \in AllTests :
    /\ meta[a].body = "undefined"
    /\ Count("report", a) = 1 /\ countFailed > 0
    /\ Pos("start", b) > Pos("report", a)

\* C9: an execution's handlers are removed before its outcome is returned, so
\* none is installed while no test is executing.
C9_HandlersRemoved ==
  /\ \A d \in Slots : drain[d].pc = "returned" => ~drain[d].installed
  /\ Awaiting = {} => handlers = 0

\* The duration a body asked for: its last timeout(t), at any time / before it
\* returned its promise; DefaultDuration when it made no such call.
Asked(x) == IF x.lastTimeout = 0 THEN DefaultDuration ELSE x.lastTimeout
AskedSync(x) == IF x.syncTimeout = 0 THEN DefaultDuration ELSE x.syncTimeout

\* C10 as stated: a body that called timeout(t) and does not settle gets the
\* timeout error when t has elapsed, not later.
C10_TimeoutAtT ==
  \A d \in Slots :
    /\ drain[d].pc = "await" => drain[d].elapsed <= Asked(drain[d])
    /\ (drain[d].pc = "returned" /\ drain[d].bodyErr = "Timeout")
       => (drain[d].elapsed = Asked(drain[d]) /\ drain[d].error = "Timeout")

\* C10 amended: the deadline is the duration in force when the body returned
\* its promise; the outcome is the timeout error unless the hook recorded an
\* error before; the drain goes on while the body is left alive.
C10_TimeoutAtArmed ==
  /\ [](\A d \in Slots :
          /\ drain[d].pc = "await" => drain[d].elapsed <= AskedSync(drain[d])
          /\ (drain[d].pc = "returned" /\ drain[d].bodyErr = "Timeout")
             => /\ drain[d].elapsed = AskedSync(drain[d])
                /\ drain[d].error = FirstOf(drain[d].hookErr, "Timeout", "null")
                /\ drain[d].id \in abandoned)
  /\ [][\A d \in Slots :
          (Resumes(d) /\ drain[d].bodyErr = "Timeout")
          => (GoesOn(d) /\ drain[d].id \in abandoned')]_vars

\* A body that called timeout(ShortDuration) before returning its promise
\* timed out at ShortDuration, with another entry queued behind it.
C10_Witness ==
  \E d \in Slots :
    /\ drain[d].pc = "returned" /\ drain[d].bodyErr = "Timeout"
    /\ drain[d].syncTimeout = ShortDuration
    /\ drain[d].elapsed = ShortDuration /\ drain[d].error = "Timeout"
    /\ FirstTest(stack) # 0

\* ------------------------------------------------ properties of CtxSpec
\* The body is over without having raised.
Completed == ctx.phase = "done" /\ ctx.thrown = "null"

\* The assertion calls made after the last expect call.
SinceExpect == ctx.asserts - ctx.atExpect

WrongNumber ==
  /\ ctx.outcome.error = "wrong number"
  /\ ctx.outcome.expected = ctx.countExpected
  /\ ctx.outcome.actual = SinceExpect

\* C11 as stated: a body that called expect(n) and completes without raising
\* has the "wrong number" outcome, with expected = n and actual = k, exactly
\* when the k assertion calls made after the last expect differ from n.
C11_WrongNumberIff ==
  (Completed /\ ctx.expects > 0)
    => (WrongNumber <=> SinceExpect # ctx.countExpected)

\* C11 amended: the same unless the hook recorded an error during the test,
\* which then is the outcome; every assertion call adds exactly 1 to the count
\* whether it passes or fails, expect sets it to 0, every other call leaves
\* it; without an expect call there is no count error.
C11_WrongNumberUnlessHook ==
  /\ []((Completed /\ ctx.expects > 0)
          => /\ ctx.countActual = SinceExpect
             /\ ctx.error = "null"
                  => (WrongNumber <=> SinceExpect # ctx.countExpected)
             /\ ctx.error # "null" => ctx.outcome.error = ctx.error)
  /\ []((ctx.phase = "done" /\ ctx.expects = 0)
          => ctx.outcome.error # "wrong number")
  /\ [][(ctx.phase = "body" /\ ctx'.calls = ctx.calls + 1)
          => ctx'.countActual =
               (CASE ctx'.last.op = "expect" -> 0
                  [] ctx'.last.op = "assert" -> ctx.countActual + 1
                  [] OTHER -> ctx.countActual)]_vars

\* After expect(2) the body made one assertion that failed, caught it and
\* returned: "wrong number", expected 2, actual 1.
C11_Witness ==
  /\ Completed /\ ctx.error = "null"
  /\ ctx.last.op = "assert" /\ ctx.last.err = "not ok"
  /\ ctx.countExpected = 2 /\ SinceExpect = 1 /\ ctx.asserts > 1
  /\ WrongNumber

\* The steps the schedule made last declared, and the last n of them.
Declared == ctx.handles[Len(ctx.handles)].declared
LastOf(st, n) == SubSeq(st, Len(st) - n + 1, Len(st))

MissedSteps ==
  /\ ctx.outcome.error = "missed steps"
  /\ ctx.outcome.steps = LastOf(Declared, Len(ctx.schedule))

\* This step is a call of step().
StepCalled ==
  ctx.phase = "body" /\ ctx'.calls = ctx.calls + 1 /\ ctx'.last.op = "step"

\* C12 as stated: a body that completes without raising and has consumed
\* fewer steps than its schedule declared has the "missed steps" outcome, with
\* the steps not consumed attached.
C12_MissedSteps ==
  (Completed /\ Len(ctx.handles) = 1 /\ ctx.schedule # <<>>) => MissedSteps

\* C12 amended: the steps are consumed from the front, one per step() call,
\* a call on an empty schedule raises "no steps left", and a body that
\* completes with steps left has the "missed steps" outcome with exactly those
\* steps unless the hook recorded an error or the assertion count is wrong,
\* which come first.
C12_MissedStepsLast ==
  /\ [](ctx.handles # <<>>
          => ctx.schedule = LastOf(Declared, Len(ctx.schedule)))
  /\ [][StepCalled
          => IF ctx.schedule = <<>>
             THEN ctx'.last.err = "no steps left" /\ ctx'.schedule = <<>>
             ELSE /\ ctx'.schedule = Tail(ctx.schedule)
                  /\ ctx'.last.expected = Head(ctx.schedule)]_vars
  /\ []((Completed /\ ctx.handles # <<>> /\ ctx.schedule # <<>>)
          => IF ctx.error # "null" THEN ctx.outcome.error = ctx.error
             ELSE IF ctx.expects > 0 /\ SinceExpect # ctx.countExpected
             THEN WrongNumber
             ELSE MissedSteps)
  /\ []((Completed /\ ctx.schedule = <<>>)
          => ctx.outcome.error # "missed steps")

\* Two steps declared, one consumed, the body returned: "missed steps" with
\* the second step attached.
C12_Witness ==
  /\ Completed /\ ctx.error = "null"
  /\ Len(ctx.handles) = 1 /\ Len(Declared) = 2 /\ Len(ctx.schedule) = 1
  /\ ctx.last.op = "step"
  /\ MissedSteps /\ ctx.outcome.steps = <<Declared[2]>>

\* ---------------------------------------------------- properties of Spec
\* C13: an error that reaches the outcome of a test through the hook was
\* produced by the body of that test, never by the body of another one.
C13_ErrorsStayLocal ==
  \A d \in Slots :
    (drain[d].pc = "returned" /\ drain[d].hookErr # "null"
       /\ drain[d].error = drain[d].hookErr)
    => drain[d].hookFrom = drain[d].id

\* The group markers delivered to the reporter, in order.
IsMarker(ev) == ev.e \in {"gs", "ge"}
MarkersOut == SelectSeq(events, IsMarker)
Depth ==
  Cardinality({k \in 1..Len(events) : events[k].e = "gs"})
  - Cardinality({k \in 1..Len(events) : events[k].e = "ge"})

\* C14: the markers are reported strictly paired, file after file: start of
\* file 1, end of file 1, start of file 2, ...; the depth of open groups is 0
\* or 1, and at the summary every loaded file has had its start and its end.
C14_GroupsPaired ==
  /\ \A k \in 1..Len(MarkersOut) :
       MarkersOut[k] = Ev(IF k % 2 = 1 THEN "gs" ELSE "ge", (k + 1) \div 2)
  /\ Len(MarkersOut) <= 2 * countFiles
  /\ Depth \in {0, 1}
  /\ exited => (Depth = 0 /\ Len(MarkersOut) = 2 * countFiles)

\* Two files were loaded, a nested test was registered and ran, and the
\* summary was emitted.
C14_Witness ==
  /\ exited /\ countFiles = 2 /\ Len(MarkersOut) = 4
  /\ \E n \in AllTests : meta[n].how = "nested" /\ Count("report", n) = 1

\* ------------------------------------------------ properties of CtxSpec
\* The tolerance the caller asked for: the option, 20 when it gave none.
AskedTolerance(opt) == IF opt = -1 THEN DefaultTolerance ELSE opt

ElapsedNow == ctx.now - ctx.startTime

\* C15: a step(values) call on a non-empty schedule succeeds exactly when the
\* values equal the next expected values and |elapsed - time| is within the
\* caller's tolerance; a value mismatch raises "unexpected step" (checked
\* first), a timing miss "bad timing", both carrying expected = [time, values]
\* and actual = [elapsed, observed].
C15_StepAccepts ==
  [][(StepCalled /\ ctx.schedule # <<>>)
       => /\ (ctx'.last.err = "null")
               <=> /\ ctx'.last.actual.value = Head(ctx.schedule).value
                   /\ Abs(ElapsedNow - Head(ctx.schedule).time)
                        <= AskedTolerance(ctx.handles[ctx'.last.h].option)
          /\ ctx'.last.actual.value # Head(ctx.schedule).value
               => ctx'.last.err = "unexpected step"
          /\ ctx'.last.err \in {"null", "unexpected step", "bad timing"}
          /\ ctx'.last.expected = Head(ctx.schedule)
          /\ ctx'.last.actual.time = ElapsedNow]_vars

\* C16: an accepted step advances the anchor by diff = elapsed - time and a
\* failed one leaves it; so a step that follows an accepted step passes the
\* timing check exactly when the time between the two differs from the
\* distance of their expected times by at most the tolerance.
C16_AnchorFollows ==
  /\ [][StepCalled
          => ctx'.startTime =
               (IF ctx'.last.err = "null"
                THEN ctx.startTime + (ElapsedNow - Head(ctx.schedule).time)
                ELSE ctx.startTime)]_vars
  /\ [][(StepCalled /\ ctx.schedule # <<>> /\ ctx.prev # NoPair
           /\ ctx'.last.actual.value = Head(ctx.schedule).value)
          => ((ctx'.last.err = "null")
                <=> Abs((ctx.now - ctx.prevAt)
                        - (Head(ctx.schedule).time - ctx.prev.time))
                      <= ctx.handles[ctx'.last.h].tollerance)]_vars

\* Two steps were accepted one after the other, each late by no more than the
\* tolerance, the second one later than the tolerance allows when measured
\* from the anchor start() had set.
C16_Witness ==
  /\ ctx.phase = "body" /\ ctx.last.op = "step" /\ ctx.last.err = "null"
  /\ ctx.schedule = <<>> /\ Len(Declared) = 2
  /\ ctx.prevAt = ctx.now
  /\ (ctx.now - ctx.anchor) - ctx.last.expected.time
       > ctx.handles[ctx.last.h].tollerance

\* C17: every schedule a body makes has its own state: the steps a handle's
\* step() consumes next are the steps that handle declared and has not yet
\* consumed, whatever other schedules were made or used; and steps left in
\* any of them when the body ends give "missed steps".
C17_OwnState ==
  /\ ctx.phase = "body"
       => \A h \in 1..Len(ctx.handles) : ctx.schedule = ctx.handles[h].own
  /\ (Completed /\ ctx.error = "null"
        /\ ~(ctx.expects > 0 /\ SinceExpect # ctx.countExpected)
        /\ \E h \in 1..Len(ctx.handles) : ctx.handles[h].own # <<>>)
       => ctx.outcome.error = "missed steps"

\* ---------------------------------------------------- properties of Spec
\* C18: nested tests registered by one body run in the order in which they
\* were registered: one registered later never starts before one registered
\* earlier by the same parent.
C18_RegistrationOrder ==
  \A a, b \in AllTests :
    (a < b /\ meta[a].how = "nested" /\ meta[b].how = "nested"
       /\ meta[a].parent = meta[b].parent
       /\ meta[a].during = "sync" /\ meta[b].during = "sync"
       /\ Count("start", b) > 0)
    => (Count("start", a) > 0 /\ Pos("start", a) < Pos("start", b))

\* The file whose load registered the test, or registered the test whose body
\* registered it.
RECURSIVE FileOf(_)
FileOf(id) == IF meta[id].parent = 0 THEN meta[id].file ELSE FileOf(meta[id].parent)

\* C19: every result is reported while the group of the file that registered
\* the test is open: after that file's start marker and before its end marker.
C19_ReportedInGroup ==
  \A id \in AllTests :
    Count("report", id) > 0
      => /\ Count("gs", FileOf(id)) > 0
         /\ Pos("gs", FileOf(id)) < Pos("report", id)
         /\ Count("ge", FileOf(id)) > 0
              => Pos("report", id) < Pos("ge", FileOf(id))

\* C20: in TestRunner the flag tells whether a runTests invocation exists:
\* running is true exactly when one is scheduled or in progress.
C20_RunningMeansDrain ==
  (impl = "runner" /\ ~exited)
    => (running <=> \E d \in Slots : drain[d].pc # "idle")

====
